---------------------------- MODULE Spec2Model ----------------------------
(***************************************************************************)
(* A state-machine model of gitlab2github.py: the GitLabToGitHubMigrator   *)
(* class (repository provisioning, git history transport, label,           *)
(* milestone, issue and merge-request migration, the per-repository        *)
(* orchestration and the run loop).                                        *)
(*                                                                         *)
(* The two platforms are the environment.  The source platform is a fixed  *)
(* input (repositories); the destination platform is the record gh, which  *)
(* the migrator changes only through the calls the code makes.  Every call *)
(* to a platform or to git may raise an Exception; the process may also be *)
(* interrupted (KeyboardInterrupt, a BaseException no "except Exception"   *)
(* clause catches).  One action models one call of the code together with  *)
(* the bookkeeping around it; pc is the position in the code.              *)
(***************************************************************************)
EXTENDS Naturals, Sequences, FiniteSets, TLC

VARIABLES
    config,             \* MigrationConfig: the enable flags, force_private
    repositories,       \* the source platform: the projects of the group
    gh,                 \* the destination platform, per repository index
    milestone_mapping,  \* self.milestone_mapping: source id -> number
    success_count,      \* run_migration's tally
    tmp_dirs,           \* repositories whose _tmp_migrate_<name> exists
    pc,                 \* position in the code
    frame,              \* the local variables of the running functions
    hist                \* history: runs, outcomes per item, step log

vars == <<config, repositories, gh, milestone_mapping, success_count,
          tmp_dirs, pc, frame, hist>>

---------------------------------------------------------------------------
(* Bounds of the model.                                                    *)

MaxIssues == 2          \* source issues per repository
MaxMRs    == 2          \* source merge requests per repository
MaxRepos  == 2          \* repositories of the source group
MaxFaults == 2          \* calls that raise in one run
MaxRuns   == 2          \* times a migrator is run against one destination
PageSize  == 2          \* items on a page of a listing (20 at the source)

---------------------------------------------------------------------------
(* Values.                                                                 *)

None == 0               \* Python's None for a milestone reference

\* A title is a sequence of text pieces, so that a formatted title (an
\* f-string) is the concatenation of its pieces.
Titles == {<<"A">>, <<"B">>}
SourceIssueStates == {"opened", "closed"}
BlankBodies == {"", " "}
LabelNames == {"bug"}

\* A text is a sequence of pieces; an optional value (Python's None or a
\* value) is a sequence of length 0 or 1.
NoValue == <<>>
Some(x) == <<x>>

\* Range of a sequence.
Range(s) == {s[k] : k \in 1..Len(s)}

\* Sequences over S of length at most n.
SeqUpTo(S, n) == UNION {[1..k -> S] : k \in 0..n}

\* str.lstrip('#'): drop every leading '#'.
RECURSIVE Lstrip(_)
Lstrip(color) ==
    IF color # <<>> /\ Head(color) = "#" THEN Lstrip(Tail(color)) ELSE color

\* The neutral colour used when the source has none ("ededed").
DefaultColor == <<"e", "d">>

\* not (note.body and note.body.strip())
IsBlank(body) == body \in BlankBodies

\* A variant of IssueState that keeps the source's state name.
IssueState_Raw(state) == state

\* 'closed' if issue.state == 'closed' else 'open'
IssueState(state) == IF state = "closed" THEN "closed" ELSE "open"

\* The repository being migrated and its destination collections.
Repo == repositories[frame.ri]
Issue == Repo.issues[frame.ii]

\* What list() returns when not asked for all items: the first page.
Page(list) ==
    SubSeq(list, 1, IF Len(list) > PageSize THEN PageSize ELSE Len(list))

\* gitlab_project.labels.list(), gitlab_project.milestones.list() and
\* issue.notes.list()
ListedLabels == Page(Repo.labels)
ListedMilestones == Page(Repo.milestones)
IssueNotes == Page(Issue.notes)

\* {l.name: l for l in gitlab_project.labels.list()}: a later label of the
\* same name replaces an earlier one.
GitlabLabel(name) ==
    LET ks == {k \in 1..Len(ListedLabels) : ListedLabels[k].name = name}
    IN  ListedLabels[CHOOSE k \in ks : \A j \in ks : j <= k]

\* A colour taken from the source as it is, with no default.
AutoLabelColor_Raw(name) ==
    IF \E k \in 1..Len(ListedLabels) : ListedLabels[k].name = name
    THEN GitlabLabel(name).color
    ELSE <<>>

\* The colour of an auto-created label.
AutoLabelColor(name) ==
    IF \E k \in 1..Len(ListedLabels) : ListedLabels[k].name = name
    THEN IF GitlabLabel(name).color # <<>>
         THEN Lstrip(GitlabLabel(name).color) ELSE DefaultColor
    ELSE DefaultColor

\* issue.description if issue.description is not None else ""
Body(description) == IF description = NoValue THEN <<>> ELSE description[1]

\* The description of an auto-created label: gl_label.description or "".
AutoLabelDescription(name) ==
    IF \E k \in 1..Len(ListedLabels) : ListedLabels[k].name = name
    THEN Body(GitlabLabel(name).description)
    ELSE <<>>

\* The label github_repo.create_label(name, color, description) makes.
AutoLabel(name) ==
    [name |-> name, color |-> AutoLabelColor(name),
     description |-> AutoLabelDescription(name)]

\* A colour handed on as the source has it.
LabelColor_Raw(color) == color

\* label.color.lstrip('#') if label.color.startswith('#') else label.color
LabelColor(color) ==
    IF color # <<>> /\ Head(color) = "#" THEN Lstrip(color) ELSE color

\* 'closed' if milestone.state == 'closed' else 'open'
MilestoneState(state) == IF state = "closed" THEN "closed" ELSE "open"

\* re.sub(r'[\x00-\x1F\x7F]', '', description), '' for no description.
ControlChars == {"\\a", "\\n", "\\x7f"}

RECURSIVE StripControl(_)
StripControl(text) ==
    IF text = <<>> THEN <<>>
    ELSE IF Head(text) \in ControlChars THEN StripControl(Tail(text))
    ELSE <<Head(text)>> \o StripControl(Tail(text))

sanitize_description(description) ==
    IF description = NoValue \/ description[1] = <<>> THEN <<>>
    ELSE StripControl(description[1])

\* A resolution that keeps everything but public repositories private.
Visibility_InternalPrivate(force_private, source_visibility) ==
    IF force_private THEN "private"
    ELSE IF source_visibility = "public" THEN "public" ELSE "private"

\* 'private' if force_private, else 'private' if the source is private
\* else 'public'.
Visibility(force_private, source_visibility) ==
    IF force_private THEN "private"
    ELSE IF source_visibility = "private" THEN "private" ELSE "public"

\* set(label.name for label in github_repo.get_labels())
LabelNamesOf(labels) == {l.name : l \in labels}

\* The dedup keys of the destination's issues: (ei.title, ei.state).
IssueKeys(issues) == {<<issues[k].title, issues[k].state>> : k \in 1..Len(issues)}

\* The number of destination issues whose (title, state) is key.
KeyCount(issues, key) ==
    Cardinality({k \in 1..Len(issues) : <<issues[k].title, issues[k].state>> = key})

\* History tags.
ItemTag(kind) == <<hist.run, frame.ri, kind, frame.ii>>

\* A call may raise while the run's budget of raising calls lasts.
CanFail == hist.faults < MaxFaults

\* The history after a call raised: the item's failure and the call.
Failed(kind, stage) ==
    [hist EXCEPT !.failed = @ \cup {ItemTag(kind) \o <<stage>>},
                 !.faults = @ + 1]

\* The history after a migrator's list call raised.
Aborted(kind) ==
    [hist EXCEPT !.aborted = @ \cup {<<hist.run, frame.ri, kind>>},
                 !.faults = @ + 1]

\* The history after a migrator's list call returned.
Listed(kind) ==
    [hist EXCEPT !.reads = @ \cup {<<hist.run, frame.ri, kind>>}]

PreExisting == <<0, 0, "pre", 0>>

\* The locals of one loop iteration, before the iteration sets them.
ItemLocals(f) ==
    [f EXCEPT !.li = 1, !.ni = 1, !.labels = <<>>, !.milestone = None,
              !.gh_issue = 0, !.gh_pr = 0]

\* The loop variable moves to the next item; the iteration's locals are dead.
NextItem == ItemLocals([frame EXCEPT !.ii = @ + 1])

\* The function returns: all its locals are dead.
Returned ==
    ItemLocals([frame EXCEPT !.ii = 1, !.existing_issue_keys = {},
                             !.github_label_names = {}])

---------------------------------------------------------------------------
(* migrate_issues                                                          *)

\* A variant of IssueExcept in which the exception leaves the for loop.
IssueExcept_Abort(stage) ==
    /\ CanFail
    /\ hist' = Failed("issue", stage)
    /\ frame' = Returned
    /\ pc' = "issues_ret"

\* A variant of IssueExcept in which the failed issue is tried again.
IssueExcept_Retry(stage) ==
    /\ CanFail
    /\ hist' = Failed("issue", stage)
    /\ frame' = ItemLocals(frame)
    /\ pc' = "issue_loop"

\* except Exception as e: log the issue's failure; the for loop goes on.
IssueExcept(stage) ==
    /\ CanFail
    /\ hist' = Failed("issue", stage)
    /\ frame' = NextItem
    /\ pc' = "issue_loop"

\* A variant of IssuesEntry without the guard on migrate_issues.
IssuesEntry_NoFlag ==
    /\ pc = "issues"
    /\ frame' = [frame EXCEPT
             !.ii = 1,
             !.existing_issue_keys = IssueKeys(gh.issues[frame.ri]),
             !.github_label_names = LabelNamesOf(gh.labels[frame.ri])]
    /\ pc' = "issue_loop"
    /\ hist' = Listed("issues")
    /\ UNCHANGED <<config, repositories, gh, milestone_mapping, success_count,
                   tmp_dirs>>

\* The guard and the pre-pass: the source issues, the destination's issue
\* keys and label names, the source's labels.
IssuesEntry ==
    /\ pc = "issues"
    /\ IF ~config.migrate_issues
       THEN /\ pc' = "issues_ret"
            /\ UNCHANGED <<frame, hist>>
       ELSE \/ /\ frame' = [frame EXCEPT
                        !.ii = 1,
                        !.existing_issue_keys = IssueKeys(gh.issues[frame.ri]),
                        !.github_label_names = LabelNamesOf(gh.labels[frame.ri])]
               /\ pc' = "issue_loop"
               /\ hist' = Listed("issues")
            \/ \* one of the list calls raised: the outer except logs it
               /\ CanFail
               /\ hist' = Aborted("issues")
               /\ pc' = "issues_ret"
               /\ UNCHANGED frame
    /\ UNCHANGED <<config, repositories, gh, milestone_mapping, success_count,
                   tmp_dirs>>

\* for issue in issues: the next issue, or the end of the loop.
IssueLoop ==
    /\ pc = "issue_loop"
    /\ IF frame.ii > Len(Repo.issues)
       THEN /\ pc' = "issues_ret"
            /\ frame' = Returned
       ELSE /\ pc' = "issue_labels"
            /\ frame' = ItemLocals(frame)
    /\ UNCHANGED <<config, repositories, gh, milestone_mapping, success_count,
                   tmp_dirs, hist>>

\* for label in issue.labels: a label the destination has is attached; one
\* it has not is created first, and dropped when that fails.
IssueLabel ==
    /\ pc = "issue_labels"
    /\ frame.li <= Len(Issue.labels)
    /\ LET name == Issue.labels[frame.li] IN
       IF name \in frame.github_label_names
       THEN /\ frame' = [frame EXCEPT !.labels = Append(@, name), !.li = @ + 1]
            /\ UNCHANGED <<gh, hist>>
       ELSE \/ \* create_label and the refresh of the names succeed
               /\ name \notin LabelNamesOf(gh.labels[frame.ri])
               /\ gh' = [gh EXCEPT !.labels[frame.ri] = @ \cup {AutoLabel(name)}]
               /\ frame' = [frame EXCEPT
                        !.github_label_names = LabelNamesOf(gh'.labels[frame.ri]),
                        !.labels = Append(@, name), !.li = @ + 1]
               /\ hist' = [hist EXCEPT !.auto_labels = @ \cup {name}]
            \/ \* create_label succeeds, the refresh raises: the label is
               \* dropped from the issue
               /\ CanFail
               /\ name \notin LabelNamesOf(gh.labels[frame.ri])
               /\ gh' = [gh EXCEPT !.labels[frame.ri] = @ \cup {AutoLabel(name)}]
               /\ frame' = [frame EXCEPT !.li = @ + 1]
               /\ hist' = [hist EXCEPT !.faults = @ + 1,
                                       !.auto_labels = @ \cup {name}]
            \/ \* create_label raises: the label is dropped from the issue
               /\ CanFail
               /\ frame' = [frame EXCEPT !.li = @ + 1]
               /\ hist' = [hist EXCEPT !.faults = @ + 1]
               /\ UNCHANGED gh
    /\ UNCHANGED <<config, repositories, milestone_mapping, success_count,
                   tmp_dirs, pc>>

\* The milestone: looked up in the mapping, then fetched by number.
IssueMilestone ==
    /\ pc = "issue_labels"
    /\ frame.li > Len(Issue.labels)
    /\ IF Issue.milestone # None /\ Issue.milestone \in DOMAIN milestone_mapping
       THEN LET number == milestone_mapping[Issue.milestone] IN
            \/ /\ number \in 1..Len(gh.milestones[frame.ri])
               /\ frame' = [frame EXCEPT !.milestone = number]
               /\ pc' = "issue_create"
               /\ UNCHANGED hist
            \/ IssueExcept("get_milestone")
       ELSE /\ pc' = "issue_create"
            /\ UNCHANGED <<frame, hist>>
    /\ UNCHANGED <<config, repositories, gh, milestone_mapping, success_count,
                   tmp_dirs>>

\* The dedup key of the source issue: skipped when the destination had it.
IssueSkip ==
    /\ pc = "issue_create"
    /\ <<Issue.title, IssueState(Issue.state)>> \in frame.existing_issue_keys
    /\ hist' = [hist EXCEPT !.skipped = @ \cup {ItemTag("issue")}]
    /\ frame' = NextItem
    /\ pc' = "issue_loop"
    /\ UNCHANGED <<config, repositories, gh, milestone_mapping, success_count,
                   tmp_dirs>>

\* A variant of IssueCreate that adds the created issue's key to the keys
\* the dedup check consults.
IssueCreate_Remember ==
    /\ pc = "issue_create"
    /\ <<Issue.title, IssueState(Issue.state)>> \notin frame.existing_issue_keys
    /\ \/ /\ gh' = [gh EXCEPT !.issues[frame.ri] = Append(@,
                        [title |-> Issue.title, state |-> "open",
                         body |-> Body(Issue.description),
                         labels |-> Range(frame.labels),
                         milestone |-> frame.milestone,
                         comments |-> <<>>,
                         origin |-> ItemTag("issue")])]
          /\ frame' = [frame EXCEPT
                          !.gh_issue = Len(gh.issues[frame.ri]) + 1,
                          !.existing_issue_keys = @ \cup
                              {<<Issue.title, IssueState(Issue.state)>>}]
          /\ pc' = "issue_notes"
          /\ UNCHANGED hist
       \/ /\ IssueExcept("create_issue")
          /\ UNCHANGED gh
    /\ UNCHANGED <<config, repositories, milestone_mapping, success_count,
                   tmp_dirs>>

\* github_repo.create_issue(**issue_kwargs)
IssueCreate ==
    /\ pc = "issue_create"
    /\ <<Issue.title, IssueState(Issue.state)>> \notin frame.existing_issue_keys
    /\ \/ /\ gh' = [gh EXCEPT !.issues[frame.ri] = Append(@,
                        [title |-> Issue.title, state |-> "open",
                         body |-> Body(Issue.description),
                         labels |-> Range(frame.labels),
                         milestone |-> frame.milestone,
                         comments |-> <<>>,
                         origin |-> ItemTag("issue")])]
          /\ frame' = [frame EXCEPT !.gh_issue = Len(gh.issues[frame.ri]) + 1]
          /\ pc' = "issue_notes"
          /\ UNCHANGED hist
       \/ \* an AssertionError (continue) or any other Exception
          /\ IssueExcept("create_issue")
          /\ UNCHANGED gh
    /\ UNCHANGED <<config, repositories, milestone_mapping, success_count,
                   tmp_dirs>>

\* notes = issue.notes.list(); each non-blank note becomes a comment.
IssueNote ==
    /\ pc = "issue_notes"
    /\ frame.ni <= Len(IssueNotes)
    /\ IF IsBlank(IssueNotes[frame.ni])
       THEN /\ frame' = [frame EXCEPT !.ni = @ + 1]
            /\ UNCHANGED <<gh, pc, hist>>
       ELSE \/ /\ gh' = [gh EXCEPT !.issues[frame.ri][frame.gh_issue].comments =
                                Append(@, IssueNotes[frame.ni])]
               /\ frame' = [frame EXCEPT !.ni = @ + 1]
               /\ UNCHANGED <<pc, hist>>
            \/ /\ IssueExcept("create_comment")
               /\ UNCHANGED gh
    /\ UNCHANGED <<config, repositories, milestone_mapping, success_count,
                   tmp_dirs>>

\* issue.notes.list() raises.
IssueNotesRaise ==
    /\ pc = "issue_notes"
    /\ frame.ni = 1
    /\ IssueExcept("notes")
    /\ UNCHANGED <<config, repositories, gh, milestone_mapping, success_count,
                   tmp_dirs>>

\* if issue.state == 'closed': gh_issue.edit(state='closed'); then the
\* issue is done (the log line and the sleep).
IssueClose ==
    /\ pc = "issue_notes"
    /\ frame.ni > Len(IssueNotes)
    /\ \/ /\ gh' = IF Issue.state = "closed"
                   THEN [gh EXCEPT !.issues[frame.ri][frame.gh_issue].state = "closed"]
                   ELSE gh
          /\ hist' = [hist EXCEPT !.done = @ \cup {ItemTag("issue")}]
          /\ frame' = NextItem
          /\ pc' = "issue_loop"
       \/ /\ Issue.state = "closed"
          /\ IssueExcept("edit")
          /\ UNCHANGED gh
    /\ UNCHANGED <<config, repositories, milestone_mapping, success_count,
                   tmp_dirs>>

IssueActions ==
    \/ IssuesEntry \/ IssueLoop \/ IssueLabel \/ IssueMilestone \/ IssueSkip
    \/ IssueCreate \/ IssueNote \/ IssueNotesRaise \/ IssueClose

---------------------------------------------------------------------------
(* migrate_merge_requests                                                  *)

MR == Repo.mrs[frame.ii]

\* mr.notes.list()
MRNotes == Page(MR.notes)

\* The title of the record-keeping issue of a skipped merge request:
\* f"[...] MR: {mr.title} (source: {mr.source_branch}, target: {mr.target_branch})"
SkipTitle(mr) ==
    <<"[skip] MR: ">> \o mr.title \o
    <<" (source: ", mr.source_branch, ", target: ", mr.target_branch, ")">>

\* Its body: the request's number, title, state, branches and URL.
SkipBody(mr, iid) ==
    <<"!", iid>> \o mr.title \o <<mr.state, mr.source_branch, mr.target_branch>>

\* A variant of BranchMissing that looks at the source branch only.
BranchMissing_SourceOnly(mr, branches) == mr.source_branch \notin branches

\* mr.source_branch not in branches or mr.target_branch not in branches
BranchMissing(mr, branches) ==
    mr.source_branch \notin branches \/ mr.target_branch \notin branches

\* except Exception as e: log the request's failure; the for loop goes on.
MRExcept(stage) ==
    /\ CanFail
    /\ hist' = Failed("mr", stage)
    /\ frame' = NextItem
    /\ pc' = "mr_loop"

\* The guard, and merge_requests = gitlab_project.mergerequests.list(all=True).
MRsEntry ==
    /\ pc = "mrs"
    /\ IF ~config.migrate_merge_requests
       THEN /\ pc' = "mrs_ret"
            /\ UNCHANGED <<frame, hist>>
       ELSE \/ /\ frame' = [frame EXCEPT !.ii = 1]
               /\ pc' = "mr_loop"
               /\ hist' = Listed("mrs")
            \/ \* the list call raised: the outer except logs it
               /\ CanFail
               /\ hist' = Aborted("mrs")
               /\ pc' = "mrs_ret"
               /\ UNCHANGED frame
    /\ UNCHANGED <<config, repositories, gh, milestone_mapping, success_count,
                   tmp_dirs>>

\* for mr in merge_requests: the next request, or the end of the loop.
MRLoop ==
    /\ pc = "mr_loop"
    /\ IF frame.ii > Len(Repo.mrs)
       THEN /\ pc' = "mrs_ret"
            /\ frame' = Returned
       ELSE /\ pc' = "mr_branches"
            /\ frame' = ItemLocals(frame)
    /\ UNCHANGED <<config, repositories, gh, milestone_mapping, success_count,
                   tmp_dirs, hist>>

\* branches = [b.name for b in github_repo.get_branches()] and the guard;
\* with both branches there, the request's label names are collected.
MRBranches ==
    /\ pc = "mr_branches"
    /\ \/ /\ IF BranchMissing(MR, gh.branches[frame.ri])
             THEN /\ pc' = "mr_record"
                  /\ UNCHANGED frame
             ELSE /\ pc' = "mr_milestone"
                  /\ frame' = [frame EXCEPT !.labels = MR.labels]
          /\ UNCHANGED hist
       \/ MRExcept("get_branches")
    /\ UNCHANGED <<config, repositories, gh, milestone_mapping, success_count,
                   tmp_dirs>>

\* gh_issue = github_repo.create_issue(title=issue_title, body=issue_body)
MRRecordCreate ==
    /\ pc = "mr_record"
    /\ \/ /\ gh' = [gh EXCEPT !.issues[frame.ri] = Append(@,
                        [title |-> SkipTitle(MR), state |-> "open",
                         body |-> SkipBody(MR, frame.ii),
                         labels |-> {}, milestone |-> None,
                         comments |-> <<>>,
                         origin |-> ItemTag("mr")])]
          /\ frame' = [frame EXCEPT !.gh_issue = Len(gh.issues[frame.ri]) + 1]
          /\ pc' = "mr_record_close"
          /\ UNCHANGED hist
       \/ /\ MRExcept("create_issue")
          /\ UNCHANGED gh
    /\ UNCHANGED <<config, repositories, milestone_mapping, success_count,
                   tmp_dirs>>

\* gh_issue.edit(state='closed'); continue
MRRecordClose ==
    /\ pc = "mr_record_close"
    /\ \/ /\ gh' = [gh EXCEPT !.issues[frame.ri][frame.gh_issue].state = "closed"]
          /\ hist' = [hist EXCEPT !.skipped = @ \cup {ItemTag("mr")}]
          /\ frame' = NextItem
          /\ pc' = "mr_loop"
       \/ /\ MRExcept("edit")
          /\ UNCHANGED gh
    /\ UNCHANGED <<config, repositories, milestone_mapping, success_count,
                   tmp_dirs>>

\* The milestone: looked up in the mapping, then fetched by number.
MRMilestone ==
    /\ pc = "mr_milestone"
    /\ IF MR.milestone # None /\ MR.milestone \in DOMAIN milestone_mapping
       THEN LET number == milestone_mapping[MR.milestone] IN
            \/ /\ number \in 1..Len(gh.milestones[frame.ri])
               /\ frame' = [frame EXCEPT !.milestone = number]
               /\ pc' = "mr_create"
               /\ UNCHANGED hist
            \/ MRExcept("get_milestone")
       ELSE /\ pc' = "mr_create"
            /\ UNCHANGED <<frame, hist>>
    /\ UNCHANGED <<config, repositories, gh, milestone_mapping, success_count,
                   tmp_dirs>>

\* gh_pr = github_repo.create_pull(title, body, head, base).  The destination
\* refuses a pull request while an open one has the same head and base.
MRCreate ==
    /\ pc = "mr_create"
    /\ \/ /\ \A k \in 1..Len(gh.pulls[frame.ri]) :
                LET p == gh.pulls[frame.ri][k] IN
                ~(p.state = "open" /\ p.head = MR.source_branch
                                   /\ p.base = MR.target_branch)
          /\ gh' = [gh EXCEPT !.pulls[frame.ri] = Append(@,
                        [title |-> MR.title, body |-> Body(MR.description),
                         head |-> MR.source_branch, base |-> MR.target_branch,
                         state |-> "open", labels |-> {}, assignees |-> {},
                         milestone |-> None, comments |-> <<>>,
                         origin |-> ItemTag("mr")])]
          /\ frame' = [frame EXCEPT !.gh_pr = Len(gh.pulls[frame.ri]) + 1]
          /\ pc' = "mr_labels"
          /\ UNCHANGED hist
       \/ /\ MRExcept("create_pull")
          /\ UNCHANGED gh
    /\ UNCHANGED <<config, repositories, milestone_mapping, success_count,
                   tmp_dirs>>

\* if labels: gh_pr.add_to_labels(*labels)
MRLabels ==
    /\ pc = "mr_labels"
    /\ \/ /\ gh' = IF frame.labels # <<>>
                   THEN [gh EXCEPT !.pulls[frame.ri][frame.gh_pr].labels =
                                       @ \cup Range(frame.labels)]
                   ELSE gh
          /\ pc' = "mr_assign"
          /\ UNCHANGED <<frame, hist>>
       \/ /\ frame.labels # <<>>
          /\ MRExcept("add_to_labels")
          /\ UNCHANGED gh
    /\ UNCHANGED <<config, repositories, milestone_mapping, success_count,
                   tmp_dirs>>

\* if milestone: gh_pr.add_to_assignees(milestone).  The milestone object is
\* handed to the assignee call: the call either takes it as an assignee or
\* raises; the request's milestone field is not written.
MRAssign ==
    /\ pc = "mr_assign"
    /\ \/ /\ gh' = IF frame.milestone # None
                   THEN [gh EXCEPT !.pulls[frame.ri][frame.gh_pr].assignees =
                                       @ \cup {<<"milestone", frame.milestone>>}]
                   ELSE gh
          /\ pc' = "mr_notes"
          /\ UNCHANGED <<frame, hist>>
       \/ /\ frame.milestone # None
          /\ MRExcept("add_to_assignees")
          /\ UNCHANGED gh
    /\ UNCHANGED <<config, repositories, milestone_mapping, success_count,
                   tmp_dirs>>

\* notes = mr.notes.list(); each non-blank note becomes a comment.
MRNote ==
    /\ pc = "mr_notes"
    /\ frame.ni <= Len(MRNotes)
    /\ IF IsBlank(MRNotes[frame.ni])
       THEN /\ frame' = [frame EXCEPT !.ni = @ + 1]
            /\ UNCHANGED <<gh, pc, hist>>
       ELSE \/ /\ gh' = [gh EXCEPT !.pulls[frame.ri][frame.gh_pr].comments =
                                Append(@, MRNotes[frame.ni])]
               /\ frame' = [frame EXCEPT !.ni = @ + 1]
               /\ UNCHANGED <<pc, hist>>
            \/ /\ MRExcept("create_issue_comment")
               /\ UNCHANGED gh
    /\ UNCHANGED <<config, repositories, milestone_mapping, success_count,
                   tmp_dirs>>

\* mr.notes.list() raises.
MRNotesRaise ==
    /\ pc = "mr_notes"
    /\ frame.ni = 1
    /\ MRExcept("notes")
    /\ UNCHANGED <<config, repositories, gh, milestone_mapping, success_count,
                   tmp_dirs>>

\* A variant that closes the pull request of a merged request only.
MRClose_MergedOnly ==
    /\ pc = "mr_notes"
    /\ frame.ni > Len(MRNotes)
    /\ gh' = IF MR.state = "merged"
             THEN [gh EXCEPT !.pulls[frame.ri][frame.gh_pr].state = "closed"]
             ELSE gh
    /\ hist' = [hist EXCEPT !.done = @ \cup {ItemTag("mr")}]
    /\ frame' = NextItem
    /\ pc' = "mr_loop"
    /\ UNCHANGED <<config, repositories, milestone_mapping, success_count,
                   tmp_dirs>>

\* if mr.state == 'merged': edit(state='closed') elif mr.state == 'closed':
\* edit(state='closed'); then the request is done.
MRClose ==
    /\ pc = "mr_notes"
    /\ frame.ni > Len(MRNotes)
    /\ \/ /\ gh' = IF MR.state = "merged" \/ MR.state = "closed"
                   THEN [gh EXCEPT !.pulls[frame.ri][frame.gh_pr].state = "closed"]
                   ELSE gh
          /\ hist' = [hist EXCEPT !.done = @ \cup {ItemTag("mr")}]
          /\ frame' = NextItem
          /\ pc' = "mr_loop"
       \/ /\ MR.state = "merged" \/ MR.state = "closed"
          /\ MRExcept("edit")
          /\ UNCHANGED gh
    /\ UNCHANGED <<config, repositories, milestone_mapping, success_count,
                   tmp_dirs>>

MRActions ==
    \/ MRsEntry \/ MRLoop \/ MRBranches \/ MRRecordCreate \/ MRRecordClose
    \/ MRMilestone \/ MRCreate \/ MRLabels \/ MRAssign \/ MRNote
    \/ MRNotesRaise \/ MRClose

---------------------------------------------------------------------------
(* migrate_labels                                                          *)

\* The guard, and labels = gitlab_project.labels.list().
LabelsEntry ==
    /\ pc = "labels"
    /\ IF ~config.migrate_labels
       THEN /\ pc' = "labels_ret"
            /\ UNCHANGED <<frame, hist>>
       ELSE \/ /\ frame' = [frame EXCEPT !.ii = 1]
               /\ pc' = "label_loop"
               /\ hist' = Listed("labels")
            \/ \* the list call raised: the outer except logs it
               /\ CanFail
               /\ hist' = Aborted("labels")
               /\ pc' = "labels_ret"
               /\ UNCHANGED frame
    /\ UNCHANGED <<config, repositories, gh, milestone_mapping, success_count,
                   tmp_dirs>>

\* for label in labels: create_label with the normalized colour; a failure
\* is logged and the loop goes on.  The destination refuses a second label
\* of the same name.
LabelCreate ==
    /\ pc = "label_loop"
    /\ frame.ii <= Len(ListedLabels)
    /\ LET label == ListedLabels[frame.ii] IN
       \/ /\ label.name \notin LabelNamesOf(gh.labels[frame.ri])
          /\ gh' = [gh EXCEPT !.labels[frame.ri] = @ \cup
                       {[name |-> label.name, color |-> LabelColor(label.color),
                         description |-> Body(label.description)]}]
          /\ hist' = [hist EXCEPT !.done = @ \cup {ItemTag("label")}]
       \/ /\ CanFail \/ label.name \in LabelNamesOf(gh.labels[frame.ri])
          /\ hist' = Failed("label", "create_label")
          /\ UNCHANGED gh
    /\ frame' = NextItem
    /\ UNCHANGED <<config, repositories, milestone_mapping, success_count,
                   tmp_dirs, pc>>

\* The end of the label loop.
LabelsReturn ==
    /\ pc = "label_loop"
    /\ frame.ii > Len(ListedLabels)
    /\ pc' = "labels_ret"
    /\ frame' = Returned
    /\ UNCHANGED <<config, repositories, gh, milestone_mapping, success_count,
                   tmp_dirs, hist>>

---------------------------------------------------------------------------
(* migrate_milestones                                                      *)

\* The guard, and milestones = gitlab_project.milestones.list().
MilestonesEntry ==
    /\ pc = "milestones"
    /\ IF ~config.migrate_milestones
       THEN /\ pc' = "milestones_ret"
            /\ UNCHANGED <<frame, hist>>
       ELSE \/ /\ frame' = [frame EXCEPT !.ii = 1]
               /\ pc' = "milestone_loop"
               /\ hist' = Listed("milestones")
            \/ \* the list call raised: the outer except logs it
               /\ CanFail
               /\ hist' = Aborted("milestones")
               /\ pc' = "milestones_ret"
               /\ UNCHANGED frame
    /\ UNCHANGED <<config, repositories, gh, milestone_mapping, success_count,
                   tmp_dirs>>

\* self.milestone_mapping[milestone.id] = gh_milestone.number
MapMilestone(mapping, id, number) ==
    [x \in DOMAIN mapping \cup {id} |-> IF x = id THEN number ELSE mapping[x]]

\* for milestone in milestones: create_milestone with the mapped state, and
\* the mapping entry; a failure is logged and the loop goes on.  The
\* destination refuses a second milestone of the same title.
MilestoneCreate ==
    /\ pc = "milestone_loop"
    /\ frame.ii <= Len(ListedMilestones)
    /\ LET milestone == ListedMilestones[frame.ii]
           number == Len(gh.milestones[frame.ri]) + 1 IN
       \/ /\ \A k \in 1..Len(gh.milestones[frame.ri]) :
                gh.milestones[frame.ri][k].title # milestone.title
          /\ gh' = [gh EXCEPT !.milestones[frame.ri] = Append(@,
                       [title |-> milestone.title,
                        state |-> MilestoneState(milestone.state),
                        origin |-> ItemTag("milestone")])]
          /\ milestone_mapping' =
                 MapMilestone(milestone_mapping, milestone.id, number)
          /\ hist' = [hist EXCEPT !.done = @ \cup {ItemTag("milestone")}]
       \/ /\ \/ CanFail
             \/ \E k \in 1..Len(gh.milestones[frame.ri]) :
                   gh.milestones[frame.ri][k].title = milestone.title
          /\ hist' = Failed("milestone", "create_milestone")
          /\ UNCHANGED <<gh, milestone_mapping>>
    /\ frame' = NextItem
    /\ UNCHANGED <<config, repositories, success_count, tmp_dirs, pc>>

\* The end of the milestone loop.
MilestonesReturn ==
    /\ pc = "milestone_loop"
    /\ frame.ii > Len(ListedMilestones)
    /\ pc' = "milestones_ret"
    /\ frame' = Returned
    /\ UNCHANGED <<config, repositories, gh, milestone_mapping, success_count,
                   tmp_dirs, hist>>

---------------------------------------------------------------------------
(* run_migration, migrate_repository, create_github_repository and         *)
(* migrate_git_repository                                                  *)

\* The log of the steps of migrate_repository.
Begin(step) == <<frame.ri, step, "begin">>
End(step) == <<frame.ri, step, "end">>

\* A run_migration that counts every repository, whatever was returned.
RepoReturn_CountAll(ok, log, h) ==
    /\ success_count' = IF config.target_repo = NoValue
                        THEN success_count + 1 ELSE success_count
    /\ hist' = [h EXCEPT
                   !.steps = @ \o log,
                   !.results = Append(@, [ri |-> frame.ri, ok |-> ok])]
    /\ frame' = [Returned EXCEPT !.ri = @ + 1]
    /\ pc' = IF config.target_repo = NoValue THEN "repo_loop" ELSE "done"

\* migrate_repository returns ok: run_migration counts a True and goes on
\* to the next repository of its list (or ends, for a single target).
RepoReturn(ok, log, h) ==
    /\ success_count' = IF ok /\ config.target_repo = NoValue
                        THEN success_count + 1 ELSE success_count
    /\ hist' = [h EXCEPT
                   !.steps = @ \o log,
                   !.results = Append(@, [ri |-> frame.ri, ok |-> ok])]
    /\ frame' = [Returned EXCEPT !.ri = @ + 1]
    /\ pc' = IF config.target_repo = NoValue THEN "repo_loop" ELSE "done"

\* run_migration: the repository named by target_repo, or the group's list.
RunEntry ==
    /\ pc = "run"
    /\ IF config.target_repo # NoValue
       THEN \* get_specific_repository: the first project of that name
            LET ks == {k \in 1..Len(repositories) :
                          repositories[k].name = config.target_repo[1]} IN
            \/ /\ ks # {}
               /\ frame' = [frame EXCEPT
                               !.ri = CHOOSE k \in ks : \A j \in ks : k <= j]
               /\ pc' = "repo_start"
               /\ UNCHANGED hist
            \/ \* not found
               /\ ks = {}
               /\ pc' = "done"
               /\ UNCHANGED <<frame, hist>>
            \/ \* the lookup raised: None is returned
               /\ CanFail
               /\ hist' = [hist EXCEPT !.faults = @ + 1]
               /\ pc' = "done"
               /\ UNCHANGED frame
       ELSE \* get_gitlab_repositories: [] when the listing raised
            \/ /\ frame' = [frame EXCEPT !.ri = 1]
               /\ pc' = IF repositories = <<>> THEN "done" ELSE "repo_loop"
               /\ UNCHANGED hist
            \/ /\ CanFail
               /\ hist' = [hist EXCEPT !.faults = @ + 1]
               /\ pc' = "done"
               /\ UNCHANGED frame
    /\ success_count' = 0
    /\ UNCHANGED <<config, repositories, gh, milestone_mapping, tmp_dirs>>

\* for repo_info in repositories: the next repository, or the final tally.
RepoLoop ==
    /\ pc = "repo_loop"
    /\ pc' = IF frame.ri > Len(repositories) THEN "done" ELSE "repo_start"
    /\ UNCHANGED <<config, repositories, gh, milestone_mapping, success_count,
                   tmp_dirs, frame, hist>>

\* gitlab_project = self.gitlab.projects.get(repo_info['id']), then the call
\* of create_github_repository.
RepoStart ==
    /\ pc = "repo_start"
    /\ \/ /\ pc' = "provision"
          /\ hist' = [hist EXCEPT !.steps = Append(@, Begin("provision"))]
          /\ UNCHANGED <<frame, success_count>>
       \/ /\ CanFail
          /\ RepoReturn(FALSE, <<>>, Failed("repo", "projects.get"))
    /\ UNCHANGED <<config, repositories, gh, milestone_mapping, tmp_dirs>>

\* A create_github_repository that brings an existing repository in line
\* with the source.
ProvisionExisting_Update ==
    /\ pc = "provision"
    /\ gh.exists[frame.ri]
    /\ gh' = [gh EXCEPT
                 !.private[frame.ri] =
                     (Visibility(config.force_private, Repo.visibility) = "private"),
                 !.description[frame.ri] = sanitize_description(Repo.description)]
    /\ pc' = "get_repo"
    /\ hist' = [hist EXCEPT !.steps = Append(@, End("provision"))]
    /\ UNCHANGED <<config, repositories, milestone_mapping, success_count,
                   tmp_dirs, frame>>

\* create_github_repository: the repository exists and get_repo returns it;
\* nothing is created or updated.
ProvisionExisting ==
    /\ pc = "provision"
    /\ gh.exists[frame.ri]
    /\ pc' = "get_repo"
    /\ hist' = [hist EXCEPT !.steps = Append(@, End("provision"))]
    /\ UNCHANGED <<config, repositories, gh, milestone_mapping, success_count,
                   tmp_dirs, frame>>

\* create_github_repository: get_repo raised and create_repo succeeds.
ProvisionCreate ==
    /\ pc = "provision"
    /\ ~gh.exists[frame.ri]
    /\ gh' = [gh EXCEPT
                 !.exists[frame.ri] = TRUE,
                 !.private[frame.ri] =
                     (Visibility(config.force_private, Repo.visibility) = "private"),
                 !.description[frame.ri] = sanitize_description(Repo.description)]
    /\ pc' = "get_repo"
    /\ hist' = [hist EXCEPT !.steps = Append(@, End("provision"))]
    /\ UNCHANGED <<config, repositories, milestone_mapping, success_count,
                   tmp_dirs, frame>>

\* A failed provisioning that migrate_repository does not return on.
ProvisionFails_Continue ==
    /\ pc = "provision"
    /\ CanFail
    /\ pc' = "get_repo"
    /\ hist' = [Failed("provision", "create_repo") EXCEPT
                   !.steps = Append(@, End("provision"))]
    /\ UNCHANGED <<frame, success_count>>
    /\ UNCHANGED <<config, repositories, gh, milestone_mapping, tmp_dirs>>

\* create_github_repository: get_repo raised and create_repo raised; None
\* is returned and migrate_repository returns False.
ProvisionFails ==
    /\ pc = "provision"
    /\ CanFail
    /\ RepoReturn(FALSE, <<End("provision")>>,
                  Failed("provision", "create_repo"))
    /\ UNCHANGED <<config, repositories, gh, milestone_mapping, tmp_dirs>>

\* github_repo = self.github_org.get_repo(repo_info['name']), then the call
\* of migrate_git_repository.
GetRepo ==
    /\ pc = "get_repo"
    /\ \/ /\ pc' = "transport"
          /\ hist' = [hist EXCEPT !.steps = Append(@, Begin("transport"))]
          /\ UNCHANGED <<frame, success_count>>
       \/ /\ CanFail
          /\ RepoReturn(FALSE, <<>>, Failed("repo", "get_repo"))
    /\ UNCHANGED <<config, repositories, gh, milestone_mapping, tmp_dirs>>

\* migrate_git_repository returns (its result is not used) and
\* migrate_repository calls migrate_labels.  The temporary directory is
\* removed on both paths that return.
TransportReturn(h) ==
    /\ tmp_dirs' = tmp_dirs \ {frame.ri}
    /\ hist' = [h EXCEPT !.steps = @ \o <<End("transport"), Begin("labels")>>]
    /\ pc' = "labels"

\* The two URLs, before the try: get_repo(...).clone_url.  An exception
\* here leaves migrate_git_repository and is caught by migrate_repository.
TransportResolve ==
    /\ pc = "transport"
    /\ \/ /\ pc' = "git_clone"
          /\ UNCHANGED <<frame, success_count, hist>>
       \/ /\ CanFail
          /\ RepoReturn(FALSE, <<End("transport")>>,
                     Failed("transport", "get_repo"))
    /\ UNCHANGED <<config, repositories, gh, milestone_mapping, tmp_dirs>>

\* git clone --mirror gitlab_url temp_dir
GitClone ==
    /\ pc = "git_clone"
    /\ \/ /\ tmp_dirs' = tmp_dirs \cup {frame.ri}
          /\ pc' = "git_set_url"
          /\ UNCHANGED hist
       \/ /\ CanFail
          /\ TransportReturn(Failed("transport", "clone"))
    /\ UNCHANGED <<config, repositories, gh, milestone_mapping, success_count,
                   frame>>

\* git -C temp_dir remote set-url origin github_url
GitSetUrl ==
    /\ pc = "git_set_url"
    /\ \/ /\ pc' = "git_push"
          /\ UNCHANGED <<tmp_dirs, hist>>
       \/ /\ CanFail
          /\ TransportReturn(Failed("transport", "set-url"))
    /\ UNCHANGED <<config, repositories, gh, milestone_mapping, success_count,
                   frame>>

\* git -C temp_dir push --mirror --force, then rm -rf temp_dir: the
\* destination's branches become the source's.
GitPush ==
    /\ pc = "git_push"
    /\ \/ /\ gh' = [gh EXCEPT !.branches[frame.ri] = Repo.branches]
          /\ TransportReturn(hist)
       \/ /\ CanFail
          /\ TransportReturn(Failed("transport", "push"))
          /\ UNCHANGED gh
    /\ UNCHANGED <<config, repositories, milestone_mapping, success_count,
                   frame>>

\* The migrators called in another order: issues before milestones.
NextStep_IssuesFirst(step) ==
    CASE step = "labels" -> "issues"
      [] step = "issues" -> "milestones"
      [] step = "milestones" -> "mrs"

\* The migrator migrate_repository calls after the one that returned.
NextStep(step) ==
    CASE step = "labels" -> "milestones"
      [] step = "milestones" -> "issues"
      [] step = "issues" -> "mrs"

\* A migrator returned to migrate_repository, which calls the next one.
RepoNext ==
    /\ \E step \in {"labels", "milestones", "issues"} :
          /\ pc = step \o "_ret"
          /\ pc' = NextStep(step)
          /\ hist' = [hist EXCEPT
                         !.steps = @ \o <<End(step), Begin(NextStep(step))>>]
    /\ UNCHANGED <<config, repositories, gh, milestone_mapping, success_count,
                   tmp_dirs, frame>>

\* migrate_merge_requests returned: migrate_repository returns True.
RepoDone ==
    /\ pc = "mrs_ret"
    /\ RepoReturn(TRUE, <<End("mrs")>>, hist)
    /\ UNCHANGED <<config, repositories, gh, milestone_mapping, tmp_dirs>>

RepoActions ==
    \/ RunEntry \/ RepoLoop \/ RepoStart \/ ProvisionExisting
    \/ ProvisionCreate \/ ProvisionFails \/ GetRepo \/ TransportResolve
    \/ GitClone \/ GitSetUrl \/ GitPush \/ RepoNext \/ RepoDone
    \/ LabelsEntry \/ LabelCreate \/ LabelsReturn
    \/ MilestonesEntry \/ MilestoneCreate \/ MilestonesReturn

---------------------------------------------------------------------------
(* The environment: an interrupt, and a second run.                        *)

Running == pc \notin {"killed", "done", "exited"}

\* KeyboardInterrupt: no "except Exception" catches it; the process ends.
Interrupt ==
    /\ Running
    /\ pc' = "killed"
    /\ hist' = [hist EXCEPT !.killed = TRUE]
    /\ frame' = Returned
    /\ UNCHANGED <<config, repositories, gh, milestone_mapping, success_count,
                   tmp_dirs>>

\* The current run has raised nothing and was not interrupted.
RunClean == hist.failed = {} /\ hist.aborted = {} /\ ~hist.killed

\* migrate_issues is called again with the same source and destination.
IssuesRerun ==
    /\ pc \in {"issues_ret", "killed"}
    /\ hist.run < MaxRuns
    /\ hist' = [hist EXCEPT
                   !.run = @ + 1,
                   !.prior_clean = @ /\ RunClean,
                   !.snap = gh.issues[frame.ri],
                   !.failed = {}, !.done = {}, !.skipped = {},
                   !.aborted = {}, !.killed = FALSE, !.faults = 0,
                   !.auto_labels = {}]
    /\ pc' = "issues"
    /\ UNCHANGED <<config, repositories, gh, milestone_mapping, success_count,
                   tmp_dirs, frame>>

\* migrate_merge_requests is called again with the same source and
\* destination.
MRsRerun ==
    /\ pc \in {"mrs_ret", "killed"}
    /\ hist.run < MaxRuns
    /\ hist' = [hist EXCEPT
                   !.run = @ + 1,
                   !.prior_clean = @ /\ RunClean,
                   !.snap = gh.issues[frame.ri],
                   !.failed = {}, !.done = {}, !.skipped = {},
                   !.aborted = {}, !.killed = FALSE, !.faults = 0,
                   !.auto_labels = {}]
    /\ pc' = "mrs"
    /\ UNCHANGED <<config, repositories, gh, milestone_mapping, success_count,
                   tmp_dirs, frame>>

---------------------------------------------------------------------------
(* Inputs.                                                                 *)

DefaultConfig ==
    [migrate_labels |-> TRUE, migrate_milestones |-> TRUE,
     migrate_issues |-> TRUE, migrate_merge_requests |-> TRUE,
     force_private |-> FALSE, target_repo |-> NoValue]

NoteTexts == <<"n1", "n2", "n3", "n4">>

\* What a source issue carries besides its title and state: nothing, or a
\* description, a label, a milestone and notes, a blank one first and one
\* more than a page of them.
IssueDecor ==
    { [description |-> NoValue, labels |-> <<>>, milestone |-> None,
       notes |-> <<>>],
      [description |-> Some(<<"text">>), labels |-> <<"bug">>, milestone |-> 1,
       notes |-> <<" ">> \o SubSeq(NoteTexts, 1, PageSize)] }

IssuePool ==
    { [title |-> t, state |-> s, description |-> d.description,
       labels |-> d.labels, milestone |-> d.milestone, notes |-> d.notes] :
        t \in Titles, s \in SourceIssueStates, d \in IssueDecor }

\* Issues the destination holds before the first run.
DestIssue(t, s) ==
    [title |-> t, state |-> s, body |-> <<>>, labels |-> {},
     milestone |-> None, comments |-> <<>>, origin |-> PreExisting]

DestIssuePool ==
    {<<>>} \cup {<<DestIssue(t, s)>> : t \in Titles, s \in {"open", "closed"}}

DestMilestone == [title |-> <<"v1">>, state |-> "open", origin |-> PreExisting]

EmptyFrame ==
    [ri |-> 1, ii |-> 1, li |-> 1, ni |-> 1,
     existing_issue_keys |-> {}, github_label_names |-> {},
     labels |-> <<>>, milestone |-> None, gh_issue |-> 0, gh_pr |-> 0]

\* hist: the run's number; per run, the items that failed (with the call
\* that raised), completed, were skipped, the migrators whose pre-pass
\* raised, the number of calls that raised, the labels migrate_issues
\* created, whether the run was interrupted; whether every earlier run was
\* clean; the destination's issues when the current run began; the begin
\* and end of each step of migrate_repository, and what migrate_repository
\* returned per repository.
EmptyHist ==
    [run |-> 1, killed |-> FALSE, failed |-> {}, done |-> {}, skipped |-> {},
     aborted |-> {}, faults |-> 0, auto_labels |-> {}, prior_clean |-> TRUE,
     snap |-> <<>>, steps |-> <<>>, results |-> <<>>, reads |-> {}]

\* The source's labels, the destination's labels and milestones, and the
\* milestone mapping when migrate_issues begins.
IssueEnvPool ==
    { [src_labels |-> <<>>, gh_labels |-> {}, gh_milestones |-> <<>>,
       mapping |-> <<>>],
      [src_labels |-> <<[name |-> "bug", color |-> <<"#", "f">>,
                         description |-> Some(<<"d">>)]>>,
       gh_labels |-> {}, gh_milestones |-> <<DestMilestone>>, mapping |-> <<1>>],
      [src_labels |-> <<[name |-> "bug", color |-> <<>>, description |-> NoValue]>>,
       gh_labels |-> {[name |-> "bug", color |-> <<"f">>, description |-> <<>>]},
       gh_milestones |-> <<DestMilestone>>, mapping |-> <<1>>],
      [src_labels |-> <<[name |-> "bug", color |-> <<>>, description |-> NoValue]>>,
       gh_labels |-> {}, gh_milestones |-> <<>>, mapping |-> <<>>] }

---------------------------------------------------------------------------
(* migrate_issues run (twice) against one repository.                      *)

InitIssues ==
    /\ config \in {[DefaultConfig EXCEPT !.migrate_issues = b] : b \in BOOLEAN}
    /\ \E is \in SeqUpTo(IssuePool, MaxIssues), env \in IssueEnvPool,
          di \in DestIssuePool :
          /\ repositories = <<[name |-> "r1", visibility |-> "private",
                               labels |-> env.src_labels, milestones |-> <<>>,
                               issues |-> is, mrs |-> <<>>, branches |-> {}]>>
          /\ gh = [exists |-> <<TRUE>>, private |-> <<TRUE>>,
                   branches |-> <<{}>>,
                   description |-> << <<>> >>,
                   labels |-> <<env.gh_labels>>,
                   milestones |-> <<env.gh_milestones>>,
                   issues |-> <<di>>,
                   pulls |-> << <<>> >>]
          /\ milestone_mapping = env.mapping
    /\ success_count = 0
    /\ tmp_dirs = {}
    /\ pc = "issues"
    /\ frame = EmptyFrame
    /\ hist = EmptyHist

NextIssues == IssueActions \/ Interrupt \/ IssuesRerun

SpecIssues == InitIssues /\ [][NextIssues]_vars

---------------------------------------------------------------------------
(* migrate_merge_requests run (twice) against one repository.              *)

MRDecor ==
    { [description |-> NoValue, labels |-> <<>>, milestone |-> None,
       notes |-> <<>>],
      [description |-> Some(<<"text">>), labels |-> <<"bug">>, milestone |-> 1,
       notes |-> <<" ">> \o SubSeq(NoteTexts, 1, PageSize)] }

MRPool ==
    { [title |-> <<"M">>, state |-> s, description |-> d.description,
       source_branch |-> "feature-x", target_branch |-> "main",
       labels |-> d.labels, milestone |-> d.milestone, notes |-> d.notes] :
        s \in {"opened", "merged", "closed"}, d \in MRDecor }

\* The destination's branches: both, the target only, the source only, none.
DestBranchPool == {{"feature-x", "main"}, {"main"}, {"feature-x"}, {}}

InitMRs ==
    /\ config \in {[DefaultConfig EXCEPT !.migrate_merge_requests = b] :
                      b \in BOOLEAN}
    /\ \E ms \in SeqUpTo(MRPool, MaxMRs), bs \in DestBranchPool,
          mapping \in {<<>>, <<1>>} :
          /\ repositories = <<[name |-> "r1", visibility |-> "private",
                               labels |-> <<>>, milestones |-> <<>>,
                               issues |-> <<>>, mrs |-> ms, branches |-> bs]>>
          /\ gh = [exists |-> <<TRUE>>, private |-> <<TRUE>>,
                   branches |-> <<bs>>,
                   description |-> << <<>> >>,
                   labels |-> <<{}>>,
                   milestones |-> << <<DestMilestone>> >>,
                   issues |-> << <<>> >>,
                   pulls |-> << <<>> >>]
          /\ milestone_mapping = mapping
    /\ success_count = 0
    /\ tmp_dirs = {}
    /\ pc = "mrs"
    /\ frame = EmptyFrame
    /\ hist = EmptyHist

NextMRs == MRActions \/ Interrupt \/ MRsRerun

SpecMRs == InitMRs /\ [][NextMRs]_vars

---------------------------------------------------------------------------
(* run_migration against a group of up to MaxRepos repositories.           *)

RepoNames == <<"r1", "r2">>

\* Source repository k: bare and private, or with one of everything and
\* internal (the first) or public; the first's label colour is written with
\* '#', the second's without.  Milestone ids are unique over the source
\* platform: repository k's milestone has id k.
RepoPool(k) ==
    { [name |-> RepoNames[k], visibility |-> "private",
       description |-> NoValue,
       labels |-> <<>>, milestones |-> <<>>, issues |-> <<>>, mrs |-> <<>>,
       branches |-> {"main"}],
      [name |-> RepoNames[k],
       visibility |-> IF k = 1 THEN "internal" ELSE "public",
       description |-> Some(<<"d", "\\n">>),
       labels |-> <<[name |-> "bug",
                     color |-> IF k = 1 THEN <<"#", "f">> ELSE <<"f">>,
                     description |-> NoValue]>>,
       milestones |-> <<[id |-> k, title |-> <<"v1">>, state |-> "active"]>>,
       issues |-> <<[title |-> <<"A">>, state |-> "closed",
                     description |-> Some(<<"text">>), labels |-> <<"bug">>,
                     milestone |-> k, notes |-> <<"n1">>]>>,
       mrs |-> <<[title |-> <<"M">>, state |-> "merged",
                  description |-> NoValue,
                  source_branch |-> "feature-x", target_branch |-> "main",
                  labels |-> <<"bug">>, milestone |-> k, notes |-> <<"n1">>]>>,
       branches |-> {"main", "feature-x"}] }

\* The destination repository before the run: absent, or a public one with
\* a description of its own, left by an earlier migration of the labels
\* and the issues.
DestPool ==
    { [exists |-> FALSE, private |-> FALSE, description |-> <<>>,
       labels |-> {}, issues |-> <<>>],
      [exists |-> TRUE, private |-> FALSE, description |-> <<"old">>,
       labels |-> {[name |-> "bug", color |-> <<"f">>, description |-> <<>>]},
       issues |-> <<DestIssue(<<"A">>, "closed")>>] }

ConfigPool ==
    { [DefaultConfig EXCEPT !.target_repo = t, !.force_private = p] :
        t \in {NoValue, Some("r2"), Some("r3")}, p \in BOOLEAN }

Init ==
    /\ config \in ConfigPool
    /\ \E n \in 0..MaxRepos :
       \E rs \in [1..n -> UNION {RepoPool(k) : k \in 1..n}],
          ds \in [1..n -> DestPool] :
          /\ \A k \in 1..n : rs[k] \in RepoPool(k)
          /\ repositories = rs
          /\ gh = [exists |-> [k \in 1..n |-> ds[k].exists],
                   private |-> [k \in 1..n |-> ds[k].private],
                   branches |-> [k \in 1..n |-> {}],
                   description |-> [k \in 1..n |-> ds[k].description],
                   labels |-> [k \in 1..n |-> ds[k].labels],
                   milestones |-> [k \in 1..n |-> <<>>],
                   issues |-> [k \in 1..n |-> ds[k].issues],
                   pulls |-> [k \in 1..n |-> <<>>]]
    /\ milestone_mapping = <<>>
    /\ success_count = 0
    /\ tmp_dirs = {}
    /\ pc = "run"
    /\ frame = EmptyFrame
    /\ hist = EmptyHist

Next == RepoActions \/ IssueActions \/ MRActions \/ Interrupt

Spec == Init /\ [][Next]_vars

\* The settings with every combination of the four MIGRATE_* flags.
FlagConfigPool ==
    { [DefaultConfig EXCEPT !.migrate_labels = l, !.migrate_milestones = ms,
                            !.migrate_issues = i,
                            !.migrate_merge_requests = mr] :
        l \in BOOLEAN, ms \in BOOLEAN, i \in BOOLEAN, mr \in BOOLEAN }

\* A run over a group of one repository under any combination of flags.
InitFlags ==
    /\ config \in FlagConfigPool
    /\ \E r \in RepoPool(1), d \in DestPool :
          /\ repositories = <<r>>
          /\ gh = [exists |-> <<d.exists>>,
                   private |-> <<d.private>>,
                   branches |-> <<{}>>,
                   description |-> <<d.description>>,
                   labels |-> <<d.labels>>,
                   milestones |-> << <<>> >>,
                   issues |-> <<d.issues>>,
                   pulls |-> << <<>> >>]
    /\ milestone_mapping = <<>>
    /\ success_count = 0
    /\ tmp_dirs = {}
    /\ pc = "run"
    /\ frame = EmptyFrame
    /\ hist = EmptyHist

SpecFlags == InitFlags /\ [][Next]_vars

---------------------------------------------------------------------------
(* main: the command line, load_config, the check of the required          *)
(* settings, and the three modes.  hist carries the command line (args),   *)
(* the environment (env), the exit status, the platform calls main made    *)
(* itself, what it printed, whether a migrator was constructed, and the    *)
(* destination as it was when the program started (gh0).                   *)

RequiredFields_NoOrg ==
    {"gitlab_url", "gitlab_token", "gitlab_group_id", "github_token"}

\* required_fields
RequiredFields ==
    {"gitlab_url", "gitlab_token", "gitlab_group_id", "github_token",
     "github_org"}

\* not value, for a string that may be unset
Falsy(value) == IF value = NoValue THEN TRUE ELSE value[1] = ""

\* load_config(): the MigrationConfig built from the environment.
load_config(env) ==
    [gitlab_url |-> env.gitlab_url, gitlab_token |-> env.gitlab_token,
     gitlab_group_id |-> env.gitlab_group_id,
     github_token |-> env.github_token, github_org |-> env.github_org,
     migrate_labels |-> TRUE, migrate_milestones |-> TRUE,
     migrate_issues |-> TRUE, migrate_merge_requests |-> TRUE,
     force_private |-> env.force_private, target_repo |-> NoValue]

\* config after load_config and the --force-private override.
Loaded ==
    [load_config(hist.env) EXCEPT
        !.force_private = @ \/ hist.args.force_private]

\* A required setting is missing: sys.exit(1), which no except catches.
MainMissing ==
    /\ pc = "main"
    /\ \E field \in RequiredFields : Falsy(Loaded[field])
    /\ config' = Loaded
    /\ hist' = [hist EXCEPT !.exit = Some(1)]
    /\ pc' = "exited"
    /\ UNCHANGED <<repositories, gh, milestone_mapping, success_count,
                   tmp_dirs, frame>>

\* All required settings are there; --repo sets target_repo.
MainConfigured ==
    /\ pc = "main"
    /\ \A field \in RequiredFields : ~Falsy(Loaded[field])
    /\ config' = [Loaded EXCEPT
                     !.target_repo = IF Falsy(hist.args.repo) THEN @
                                     ELSE hist.args.repo]
    /\ pc' = "main_mode"
    /\ UNCHANGED <<repositories, gh, milestone_mapping, success_count,
                   tmp_dirs, frame, hist>>

\* GitLabToGitHubMigrator(config): the clients and get_organization.
Constructed(h) ==
    [h EXCEPT !.constructed = TRUE, !.calls = @ \cup {"get_organization"}]

\* The names get_gitlab_repositories returns.
ListedNames == [k \in 1..Len(repositories) |-> repositories[k].name]

\* The constructor raised: main's except logs it and exits with 1.
MainConstructFails ==
    /\ pc = "main_mode"
    /\ CanFail
    /\ hist' = [hist EXCEPT !.calls = @ \cup {"get_organization"},
                            !.faults = @ + 1, !.exit = Some(1)]
    /\ pc' = "exited"
    /\ UNCHANGED <<config, repositories, gh, milestone_mapping, success_count,
                   tmp_dirs, frame>>

\* --list: the group's repositories are printed ([] when listing raised).
MainList ==
    /\ pc = "main_mode"
    /\ hist.args.list
    /\ \E raised \in {FALSE, CanFail} :
          hist' = [Constructed(hist) EXCEPT
                      !.calls = @ \cup {"groups.get", "projects.list"},
                      !.printed = IF raised THEN <<>> ELSE ListedNames,
                      !.faults = IF raised THEN @ + 1 ELSE @,
                      !.exit = Some(0)]
    /\ pc' = "exited"
    /\ UNCHANGED <<config, repositories, gh, milestone_mapping, success_count,
                   tmp_dirs, frame>>

\* --dry-run: the target, or the group's repositories, are printed.
MainDryRun ==
    /\ pc = "main_mode"
    /\ ~hist.args.list /\ hist.args.dry_run
    /\ \E raised \in {FALSE, CanFail} :
          hist' = [Constructed(hist) EXCEPT
                      !.calls = @ \cup {"groups.get", "projects.list"},
                      !.printed =
                          IF raised THEN <<>>
                          ELSE IF config.target_repo = NoValue THEN ListedNames
                          ELSE IF \E k \in 1..Len(repositories) :
                                     repositories[k].name = config.target_repo[1]
                               THEN <<config.target_repo[1]>>
                               ELSE <<>>,
                      !.faults = IF raised THEN @ + 1 ELSE @,
                      !.exit = Some(0)]
    /\ pc' = "exited"
    /\ UNCHANGED <<config, repositories, gh, milestone_mapping, success_count,
                   tmp_dirs, frame>>

\* A main that migrates whether or not --dry-run was given.
MainRun_IgnoreDryRun ==
    /\ pc = "main_mode"
    /\ ~hist.args.list
    /\ hist' = Constructed(hist)
    /\ pc' = "run"
    /\ UNCHANGED <<config, repositories, gh, milestone_mapping, success_count,
                   tmp_dirs, frame>>

\* Neither --list nor --dry-run: migrator.run_migration()
MainRun ==
    /\ pc = "main_mode"
    /\ ~hist.args.list /\ ~hist.args.dry_run
    /\ hist' = Constructed(hist)
    /\ pc' = "run"
    /\ UNCHANGED <<config, repositories, gh, milestone_mapping, success_count,
                   tmp_dirs, frame>>

\* run_migration returned: main falls off its end.
MainReturn ==
    /\ pc = "done"
    /\ hist' = [hist EXCEPT !.exit = Some(0)]
    /\ pc' = "exited"
    /\ UNCHANGED <<config, repositories, gh, milestone_mapping, success_count,
                   tmp_dirs, frame>>

MainActions ==
    \/ MainMissing \/ MainConfigured \/ MainConstructFails \/ MainList
    \/ MainDryRun \/ MainRun \/ MainReturn

\* The environment: every required setting there, or one of them unset or
\* empty, or all of them unset.
FullEnv ==
    [gitlab_url |-> Some("u"), gitlab_token |-> Some("t"),
     gitlab_group_id |-> Some("g"), github_token |-> Some("h"),
     github_org |-> Some("o"), force_private |-> FALSE]

EnvPool ==
    {FullEnv}
    \cup {[FullEnv EXCEPT ![field] = v] :
             field \in DOMAIN FullEnv \ {"force_private"},
             v \in {NoValue, Some("")}}
    \cup {[f \in DOMAIN FullEnv |-> IF f = "force_private" THEN FALSE
                                    ELSE NoValue]}

ArgsPool ==
    [list : BOOLEAN, dry_run : BOOLEAN, repo : {NoValue, Some("r2")},
     force_private : BOOLEAN]

InitMain ==
    /\ config = DefaultConfig
    /\ \E n \in 0..MaxRepos :
       \E rs \in [1..n -> UNION {RepoPool(k) : k \in 1..n}],
          ds \in [1..n -> DestPool] :
          /\ \A k \in 1..n : rs[k] \in RepoPool(k)
          /\ repositories = rs
          /\ gh = [exists |-> [k \in 1..n |-> ds[k].exists],
                   private |-> [k \in 1..n |-> ds[k].private],
                   branches |-> [k \in 1..n |-> {}],
                   description |-> [k \in 1..n |-> ds[k].description],
                   labels |-> [k \in 1..n |-> ds[k].labels],
                   milestones |-> [k \in 1..n |-> <<>>],
                   issues |-> [k \in 1..n |-> ds[k].issues],
                   pulls |-> [k \in 1..n |-> <<>>]]
    /\ milestone_mapping = <<>>
    /\ success_count = 0
    /\ tmp_dirs = {}
    /\ pc = "main"
    /\ frame = EmptyFrame
    /\ \E a \in ArgsPool, e \in EnvPool :
          hist = EmptyHist @@
                 [args |-> a, env |-> e, exit |-> NoValue, calls |-> {},
                  printed |-> <<>>, constructed |-> FALSE, gh0 |-> gh]

NextMain == MainActions \/ Next

SpecMain == InitMain /\ [][NextMain]_vars

---------------------------------------------------------------------------
(* Properties of migrate_issues.                                           *)

\* The indices of the current repository's items of a kind in a set of tags.
Items(tags, kind) ==
    {t[4] : t \in {u \in tags : u[1] = hist.run /\ u[2] = frame.ri /\ u[3] = kind}}

\* The destination issues of repository r made for source item i of a kind
\* by run n.
MadeBy(r, n, kind, i) ==
    {k \in 1..Len(gh.issues[r]) : gh.issues[r][k].origin = <<n, r, kind, i>>}

\* C1: idempotence of migrate_issues.  When every earlier run against the
\* same source and destination ran to completion with no call raising, a
\* further run creates no destination issue: the destination holds as many
\* issues as when the run began, and for every source issue as many issues
\* matching its dedup key (title, normalized state).
C1_IssuesIdempotent ==
    (hist.run >= 2 /\ hist.prior_clean) =>
        /\ Len(gh.issues[1]) = Len(hist.snap)
        /\ \A i \in 1..Len(repositories[1].issues) :
              LET I == repositories[1].issues[i]
                  key == <<I.title, IF I.state = "closed" THEN "closed" ELSE "open">>
              IN  KeyCount(gh.issues[1], key) = KeyCount(hist.snap, key)

\* C1's case: a clean first run created two issues, one of them closed, and
\* the second run has finished and skipped both.
C1_Witness ==
    /\ hist.run = 2 /\ hist.prior_clean /\ pc = "issues_ret" /\ RunClean
    /\ Len(repositories[1].issues) = 2
    /\ repositories[1].issues[2].state = "closed"
    /\ \A i \in 1..2 : MadeBy(1, 1, "issue", i) # {}
    /\ Items(hist.skipped, "issue") = {1, 2}

\* C2: re-running after a partial run is safe.  Whatever failed in or cut
\* short an earlier run, a later run creates no destination issue for a
\* source issue that an earlier run already created one for.
C2_RerunAfterPartialRunSafe ==
    \A i \in 1..Len(repositories[1].issues) :
        \A n \in 1..MaxRuns, m \in 1..MaxRuns :
            (n < m /\ MadeBy(1, n, "issue", i) # {}) => MadeBy(1, m, "issue", i) = {}

\* C4: issue failure isolation.  When migrate_issues returns after its
\* loop, every source issue was either processed or failed, none both: the
\* loop reached the last issue and the number processed is the number of
\* source issues minus the failed ones.
C4_IssueFailureIsolation ==
    (pc = "issues_ret" /\ config.migrate_issues /\ hist.aborted = {}) =>
        LET N == Len(Repo.issues)
            failed == Items(hist.failed, "issue")
            processed == Items(hist.done \cup hist.skipped, "issue")
        IN  /\ failed \cup processed = 1..N
            /\ failed \cap processed = {}
            /\ Cardinality(processed) = N - Cardinality(failed)

\* C4's case: the creation of the first of two issues raised, it is the
\* only failure, and the second issue was created and completed.
C4_Witness ==
    /\ pc = "issues_ret"
    /\ hist.failed = {<<hist.run, 1, "issue", 1, "create_issue">>}
    /\ Items(hist.done, "issue") = {2}
    /\ MadeBy(1, hist.run, "issue", 2) # {}

---------------------------------------------------------------------------
(* Properties of migrate_merge_requests.                                   *)

\* The destination pull requests of repository r made for source merge
\* request i by run n.
PullsBy(r, n, i) ==
    {k \in 1..Len(gh.pulls[r]) : gh.pulls[r][k].origin = <<n, r, "mr", i>>}

\* C3: re-running does not duplicate requests.  When the first run of
\* migrate_merge_requests ran to completion with no call raising, then
\* through the second run every source merge request has at most one
\* destination pull request and at most one record-keeping issue.
C3_NoDuplicateRequests ==
    (hist.run >= 2 /\ hist.prior_clean) =>
    \A i \in 1..Len(repositories[1].mrs) :
        /\ Cardinality(UNION {PullsBy(1, n, i) : n \in 1..MaxRuns}) <= 1
        /\ Cardinality(UNION {MadeBy(1, n, "mr", i) : n \in 1..MaxRuns}) <= 1

\* A source merge request one of whose branches the destination lacks.
LacksBranch(i) ==
    \/ repositories[1].mrs[i].source_branch \notin gh.branches[1]
    \/ repositories[1].mrs[i].target_branch \notin gh.branches[1]

\* The record-keeping issue k of repository 1 names both branches of source
\* merge request i.
NamesBranches(k, i) ==
    /\ repositories[1].mrs[i].source_branch \in Range(gh.issues[1][k].title)
    /\ repositories[1].mrs[i].target_branch \in Range(gh.issues[1][k].title)

---------------------------------------------------------------------------
(* Properties of run_migration and migrate_repository.                     *)

StepOrder ==
    <<"provision", "transport", "labels", "milestones", "issues", "mrs">>

StepIndex(step) == CHOOSE k \in 1..Len(StepOrder) : StepOrder[k] = step

\* The control points inside each step of migrate_repository.
StepPcs ==
    [provision |-> {"provision"},
     transport |-> {"transport", "git_clone", "git_set_url", "git_push"},
     labels |-> {"labels", "label_loop", "labels_ret"},
     milestones |-> {"milestones", "milestone_loop", "milestones_ret"},
     issues |-> {"issues", "issue_loop", "issue_labels", "issue_create",
                 "issue_notes", "issues_ret"},
     mrs |-> {"mrs", "mr_loop", "mr_branches", "mr_record", "mr_record_close",
              "mr_milestone", "mr_create", "mr_labels", "mr_assign",
              "mr_notes", "mrs_ret"}]

\* C6: fixed step order.  In the log of the steps, begins and ends
\* alternate and each end closes the step begun just before it; the first
\* step is Provision; a step that begins after another is either the next
\* one of the order Provision, Transport History, Labels, Milestones, Issues,
\* Requests in the same repository, or the Provision of a later repository;
\* and control is inside a step exactly while that step is the one begun
\* last and not ended.
C6_FixedStepOrder ==
    LET s == hist.steps
        n == Len(hist.steps)
    IN  /\ \A k \in 1..n : s[k][3] = IF k % 2 = 1 THEN "begin" ELSE "end"
        /\ \A k \in 1..n :
              k % 2 = 0 => s[k][1] = s[k-1][1] /\ s[k][2] = s[k-1][2]
        /\ n > 0 => s[1][2] = "provision"
        /\ \A k \in 3..n :
              k % 2 = 1 =>
                 \/ /\ s[k][1] = s[k-2][1]
                    /\ StepIndex(s[k][2]) = StepIndex(s[k-2][2]) + 1
                 \/ /\ s[k][1] > s[k-2][1]
                    /\ s[k][2] = "provision"
        /\ \A step \in DOMAIN StepPcs :
              pc \in StepPcs[step] =>
                 n % 2 = 1 /\ s[n] = <<frame.ri, step, "begin">>
        /\ pc \in {"run", "repo_loop", "repo_start", "get_repo", "done"} =>
              n % 2 = 0

\* C6's case: a group of two repositories was migrated and all six steps
\* ran for each.
C6_Witness ==
    /\ pc = "done" /\ config.target_repo = NoValue
    /\ Len(repositories) = 2
    /\ hist.results = <<[ri |-> 1, ok |-> TRUE], [ri |-> 2, ok |-> TRUE]>>
    /\ Len(hist.steps) = 4 * Len(StepOrder)
    /\ hist.steps[2 * Len(StepOrder)] = <<1, "mrs", "end">>
    /\ hist.steps[2 * Len(StepOrder) + 1] = <<2, "provision", "begin">>

\* create_github_repository failed for repository r.
ProvisionFailed(r) ==
    <<hist.run, r, "provision", 1, "create_repo">> \in hist.failed

\* C7: a provisioning failure aborts that repository only.  When
\* create_github_repository failed for a repository, migrate_repository
\* returned False for it, no later step was begun for it and no migrator
\* touched it, and run_migration moved on; and when run_migration ends
\* after its loop, every repository of the list was attempted.
C7_ProvisionFailureAbortsRepoOnly ==
    /\ \A r \in 1..Len(repositories) :
          ProvisionFailed(r) =>
             /\ \E k \in 1..Len(hist.results) :
                   hist.results[k] = [ri |-> r, ok |-> FALSE]
             /\ \A k \in 1..Len(hist.steps) :
                   hist.steps[k][1] = r => hist.steps[k][2] = "provision"
             /\ \A t \in hist.done \cup hist.skipped \cup hist.aborted :
                   t[2] # r
             /\ \A t \in hist.failed : t[2] = r => t[3] = "provision"
             /\ frame.ri > r
    /\ (pc = "done" /\ config.target_repo = NoValue /\ hist.results # <<>>) =>
          \A r \in 1..Len(repositories) :
             /\ \E k \in 1..Len(hist.results) : hist.results[k].ri = r
             /\ \/ \E k \in 1..Len(hist.steps) :
                      hist.steps[k] = <<r, "provision", "begin">>
                \/ <<hist.run, r, "repo", 1, "projects.get">> \in hist.failed

\* C7's case: of a group of two repositories, the provisioning of the
\* first failed, and the second was migrated through its last step.
C7_Witness ==
    /\ pc = "done" /\ config.target_repo = NoValue
    /\ Len(repositories) = 2
    /\ ProvisionFailed(1)
    /\ hist.results = <<[ri |-> 1, ok |-> FALSE], [ri |-> 2, ok |-> TRUE]>>
    /\ success_count = 1
    /\ hist.steps[Len(hist.steps)] = <<2, "mrs", "end">>

\* A call of migrate_git_repository raised for repository r.
TransportFailed(r) == \E t \in hist.failed : t[2] = r /\ t[3] = "transport"

\* C8: a history transport failure does not block the metadata migration.
\* When migrate_repository has returned for a repository whose
\* migrate_git_repository failed, the label, milestone, issue and request
\* migrators were all begun for it.
C8_TransportFailureKeepsMetadata ==
    \A k \in 1..Len(hist.results) :
        TransportFailed(hist.results[k].ri) =>
            \A step \in {"labels", "milestones", "issues", "mrs"} :
                \E j \in 1..Len(hist.steps) :
                    hist.steps[j] = <<hist.results[k].ri, step, "begin">>

\* C9: transient clone cleanup.  Whenever control is outside the git
\* commands of migrate_git_repository, no temporary mirror-clone directory
\* is left.
C9_TempDirRemoved ==
    pc \notin {"git_clone", "git_set_url", "git_push"} => tmp_dirs = {}

\* C10: the milestone mapping is repository-scoped.  At the start of the
\* migration of every repository the mapping is empty, and during it the
\* mapping holds entries for that repository's milestones only.
C10_MappingRepositoryScoped ==
    /\ pc = "repo_start" => DOMAIN milestone_mapping = {}
    /\ (\E step \in DOMAIN StepPcs : pc \in StepPcs[step]) =>
          \A id \in DOMAIN milestone_mapping :
             \E k \in 1..Len(Repo.milestones) : Repo.milestones[k].id = id

\* An exception escaped migrate_repository's steps for repository r, or its
\* provisioning failed.
RepoFailed(r) ==
    \E t \in hist.failed :
        /\ t[2] = r
        /\ \/ t[3] \in {"repo", "provision"}
           \/ t[3] = "transport" /\ t[5] = "get_repo"

\* C11: run tally.  While run_migration goes over its list, the
\* repositories returned from are the first ones of the list, each once and
\* in order; the success count is the number of them whose provisioning
\* succeeded and from which no exception escaped, whatever failed inside
\* their label, milestone, issue or request migration; the count is between
\* 0 and the length of the list; and when run_migration ends after its
\* loop every repository of the list has been returned from.
C11_RunTally ==
    config.target_repo = NoValue =>
        /\ Len(hist.results) <= Len(repositories)
        /\ \A k \in 1..Len(hist.results) : hist.results[k].ri = k
        /\ success_count =
              Cardinality({k \in 1..Len(hist.results) : ~RepoFailed(k)})
        /\ success_count >= 0 /\ success_count <= Len(repositories)
        /\ (pc = "done" /\ hist.results # <<>>) =>
              Len(hist.results) = Len(repositories)

\* C11's case: of two repositories, the first was migrated with one of its
\* issues failing and counts, the second failed at provisioning and does
\* not: the tally is 1 of 2.
C11_Witness ==
    /\ pc = "done" /\ config.target_repo = NoValue
    /\ Len(repositories) = 2 /\ Len(hist.results) = 2
    /\ \E t \in hist.failed : t[2] = 1 /\ t[3] = "issue"
    /\ ~RepoFailed(1) /\ ProvisionFailed(2)
    /\ success_count = 1

---------------------------------------------------------------------------
(* Properties of main.                                                     *)

\* The calls that only read: listing and getting.
ReadCalls == {"get_organization", "groups.get", "projects.list"}

\* C12: dry-run and list-only modes do not mutate.  When main was started
\* with --dry-run or --list, the destination is as it was at the start, no
\* temporary clone exists, no step of migrate_repository was begun, nothing
\* was returned from or counted, control never is inside run_migration,
\* and the calls made are list and get calls.
C12_DryRunAndListDoNotMutate ==
    (hist.args.list \/ hist.args.dry_run) =>
        /\ gh = hist.gh0
        /\ tmp_dirs = {}
        /\ milestone_mapping = <<>>
        /\ hist.steps = <<>> /\ hist.results = <<>>
        /\ hist.done = {} /\ hist.failed = {} /\ hist.aborted = {}
        /\ pc \in {"main", "main_mode", "exited", "killed"}
        /\ hist.calls \subseteq ReadCalls

\* C12's case: --dry-run --repo r2 against a group that has r2, with its
\* destination absent: r2 was printed and main returned.
C12_Witness ==
    /\ pc = "exited" /\ hist.exit = Some(0)
    /\ hist.args.dry_run /\ ~hist.args.list /\ hist.args.repo = Some("r2")
    /\ Len(repositories) = 2 /\ ~gh.exists[2]
    /\ hist.printed = <<"r2">>
    /\ hist.constructed /\ "projects.list" \in hist.calls

\* One of the five required settings is unset or empty in the environment.
SettingMissing ==
    \E v \in {hist.env.gitlab_url, hist.env.gitlab_token,
              hist.env.gitlab_group_id, hist.env.github_token,
              hist.env.github_org} :
        v \in {NoValue, Some("")}

\* C13: missing required configuration is fatal at startup.  When one of
\* the five required settings is unset or empty, in every mode, no migrator
\* is ever constructed, no platform call is made, nothing is changed, and
\* main's only exit is with status 1.
C13_MissingConfigurationIsFatal ==
    SettingMissing =>
        /\ ~hist.constructed
        /\ hist.calls = {}
        /\ gh = hist.gh0 /\ tmp_dirs = {} /\ hist.steps = <<>>
        /\ pc \in {"main", "exited", "killed"}
        /\ pc = "exited" => hist.exit = Some(1)

\* C13's case: GITHUB_ORG is empty and the others are set; main, started
\* with no option, has exited with status 1.
C13_Witness ==
    /\ pc = "exited" /\ hist.exit = Some(1)
    /\ hist.env = [FullEnv EXCEPT !.github_org = Some("")]
    /\ ~hist.args.list /\ ~hist.args.dry_run /\ hist.args.repo = NoValue
    /\ Len(repositories) = 2
    /\ ~hist.constructed /\ hist.calls = {}

---------------------------------------------------------------------------
(* Properties of create_github_repository.                                 *)

C15_VisibilityResolution ==
    [][(pc = "provision" /\ ~gh.exists[frame.ri] /\ gh'.exists[frame.ri]) =>
          gh'.private[frame.ri] =
             IF config.force_private THEN TRUE
             ELSE Repo.visibility = "private"]_vars

\* C15's case: an internal source repository, force_private unset: the
\* destination repository was created public.
C15_Witness ==
    /\ pc = "get_repo"
    /\ ~config.force_private /\ Repo.visibility = "internal"
    /\ gh.exists[frame.ri] /\ ~gh.private[frame.ri]
    /\ gh.description[frame.ri] = <<"d">>

---------------------------------------------------------------------------
(* Properties of a migrated merge request.                                 *)

\* The comments a listing of notes is to give: its non-blank notes, in its
\* order.
Wanted(notes) ==
    LET Keep(n) == n # "" /\ n # " " IN SelectSeq(notes, Keep)

IsPrefix(a, b) == Len(a) <= Len(b) /\ a = SubSeq(b, 1, Len(a))

C17_MilestoneField ==
    \A i \in 1..Len(repositories[1].mrs) :
        \A k \in PullsBy(1, hist.run, i) :
            LET M == repositories[1].mrs[i]
                p == gh.pulls[1][k]
            IN  /\ \A a \in p.assignees : a[1] # "milestone"
                /\ (/\ i \in Items(hist.done, "mr")
                    /\ M.milestone # None
                    /\ M.milestone \in DOMAIN milestone_mapping) =>
                      p.milestone = milestone_mapping[M.milestone]

---------------------------------------------------------------------------
(* Properties of migrate_labels.                                           *)

\* C18: label colour normalization.  Whenever migrate_labels creates a
\* destination label, it is the one label added, it has the source label's
\* name, and its colour is the source colour without the leading '#' when
\* there is one and the source colour itself when there is none.
C18_LabelColorNormalization ==
    [][(pc = "label_loop" /\ gh'.labels[frame.ri] # gh.labels[frame.ri]) =>
          LET src == Repo.labels[frame.ii]
              color == IF src.color # <<>> /\ Head(src.color) = "#"
                       THEN Tail(src.color) ELSE src.color
          IN  \E l \in gh'.labels[frame.ri] :
                 /\ gh'.labels[frame.ri] = gh.labels[frame.ri] \cup {l}
                 /\ l \notin gh.labels[frame.ri]
                 /\ l.name = src.name
                 /\ l.color = color]_vars

\* C18's case: both repositories' labels were created, the first's from a
\* colour written with '#' and the second's from the same colour written
\* without: both destination labels have the colour without '#'.
C18_Witness ==
    /\ Len(repositories) = 2 /\ frame.ri = 2
    /\ {<<hist.run, 1, "label", 1>>, <<hist.run, 2, "label", 1>>}
          \subseteq hist.done
    /\ repositories[1].labels[1].color = <<"#", "f">>
    /\ repositories[2].labels[1].color = <<"f">>
    /\ \E l \in gh.labels[1] : l.name = "bug" /\ l.color = <<"f">>
    /\ \E l \in gh.labels[2] : l.name = "bug" /\ l.color = <<"f">>

---------------------------------------------------------------------------
(* Properties of a migrated issue.                                         *)

\* C19: per-issue step order.  The destination issue made in a run for a
\* source issue has, at every moment, the first of the source issue's
\* non-blank notes as its comments, in their order; it is closed only when
\* the source issue is closed and every non-blank note has its comment;
\* when the issue's migration has completed its state is the normalized
\* source state and every non-blank note has its comment; and an issue
\* whose creation failed has no destination issue.
C19_IssueStepOrder ==
    \A i \in 1..Len(repositories[1].issues) :
        /\ \A k \in MadeBy(1, hist.run, "issue", i) :
              LET I == repositories[1].issues[i]
                  d == gh.issues[1][k]
              IN  /\ IsPrefix(d.comments, Wanted(I.notes))
                  /\ d.state = "closed" =>
                        I.state = "closed" /\ d.comments = Wanted(I.notes)
                  /\ i \in Items(hist.done, "issue") =>
                        /\ d.state = IF I.state = "closed" THEN "closed"
                                     ELSE "open"
                        /\ d.comments = Wanted(I.notes)
        /\ <<hist.run, 1, "issue", i, "create_issue">> \in hist.failed =>
              MadeBy(1, hist.run, "issue", i) = {}

\* The source labels of repository 1 that have a name.
SourceLabels(name) ==
    {k \in 1..Len(repositories[1].labels) :
        repositories[1].labels[k].name = name}

---------------------------------------------------------------------------
(* Termination and single attempts.                                        *)

\* What is left of the current item of the issue loop or the request loop.
ItemRank ==
    CASE pc = "issue_labels" -> 20 + (Len(Issue.labels) + 1 - frame.li)
      [] pc = "issue_create" -> 19
      [] pc = "issue_notes" -> 1 + (Len(IssueNotes) + 1 - frame.ni)
      [] pc = "mr_branches" -> 30
      [] pc = "mr_record" -> 29
      [] pc = "mr_record_close" -> 28
      [] pc = "mr_milestone" -> 27
      [] pc = "mr_create" -> 26
      [] pc = "mr_labels" -> 25
      [] pc = "mr_assign" -> 24
      [] pc = "mr_notes" -> 1 + (Len(MRNotes) + 1 - frame.ni)
      [] OTHER -> 39

\* What is left of the current repository's migration.
StageRank ==
    CASE pc = "mrs_ret" -> 1
      [] pc \in StepPcs.mrs \ {"mrs", "mrs_ret"} ->
            2 + (Len(Repo.mrs) + 1 - frame.ii) * 40 + ItemRank
      [] pc = "mrs" -> 203
      [] pc = "issues_ret" -> 204
      [] pc \in StepPcs.issues \ {"issues", "issues_ret"} ->
            205 + (Len(Repo.issues) + 1 - frame.ii) * 40 + ItemRank
      [] pc = "issues" -> 406
      [] pc = "milestones_ret" -> 407
      [] pc = "milestone_loop" -> 408 + (Len(ListedMilestones) + 1 - frame.ii)
      [] pc = "milestones" -> 420
      [] pc = "labels_ret" -> 421
      [] pc = "label_loop" -> 422 + (Len(ListedLabels) + 1 - frame.ii)
      [] pc = "labels" -> 435
      [] pc = "git_push" -> 436
      [] pc = "git_set_url" -> 437
      [] pc = "git_clone" -> 438
      [] pc = "transport" -> 439
      [] pc = "get_repo" -> 440
      [] pc = "provision" -> 441
      [] pc = "repo_start" -> 442
      [] pc = "repo_loop" -> 443

\* A measure of what is left of the run: a natural number.
Rank ==
    CASE pc \in {"killed", "exited"} -> 0
      [] pc = "done" -> 1
      [] pc = "run" -> 2 + (Len(repositories) + 2) * 500
      [] pc = "main_mode" -> 3 + (Len(repositories) + 2) * 500
      [] pc = "main" -> 4 + (Len(repositories) + 2) * 500
      [] OTHER -> 2 + (Len(repositories) + 1 - frame.ri) * 500 + StageRank

\* The items of the run that were completed, skipped or failed.
Tagged ==
    hist.done \cup hist.skipped
        \cup {<<t[1], t[2], t[3], t[4]>> : t \in hist.failed}

\* The kind of item the loop at the current control point goes over.
LoopKind ==
    CASE pc = "label_loop" -> "label"
      [] pc = "milestone_loop" -> "milestone"
      [] pc \in StepPcs.issues \ {"issues", "issues_ret"} -> "issue"
      [] pc \in StepPcs.mrs \ {"mrs", "mrs_ret"} -> "mr"
      [] OTHER -> "none"

---------------------------------------------------------------------------
(* The per-entity flags.                                                   *)

\* The flag that guards a step of migrate_repository.
FlagOf(step) ==
    CASE step = "labels" -> config.migrate_labels
      [] step = "milestones" -> config.migrate_milestones
      [] step = "issues" -> config.migrate_issues
      [] step = "mrs" -> config.migrate_merge_requests

\* The control point at which a flagged step has returned.
RetPc(step) ==
    CASE step = "labels" -> "labels_ret"
      [] step = "milestones" -> "milestones_ret"
      [] step = "issues" -> "issues_ret"
      [] step = "mrs" -> "mrs_ret"

\* The steps a flag guards.
FlaggedSteps == {"labels", "milestones", "issues", "mrs"}

\* The log of a repository all of whose steps ran, in order.
FullLog(r) ==
    [k \in 1..(2 * Len(StepOrder)) |->
        <<r, StepOrder[(k + 1) \div 2], IF k % 2 = 1 THEN "begin" ELSE "end">>]

\* The part of the step log of repository r.
LogOf(r) ==
    LET OfRepo(s) == s[1] = r IN SelectSeq(hist.steps, OfRepo)

\* For every repository whose migration returned True, all six steps ran
\* in order, and each flagged step listed the source (or its listing
\* raised) exactly when its flag is on; with migrate_issues off the
\* destination holds no issue made by migrate_issues.
FlagsRespected ==
    /\ \A k \in 1..Len(hist.results) :
          LET r == hist.results[k].ri IN
          hist.results[k].ok =>
             /\ LogOf(r) = FullLog(r)
             /\ \A step \in FlaggedSteps :
                   FlagOf(step) <=>
                      <<hist.run, r, step>> \in hist.reads \cup hist.aborted
    /\ ~config.migrate_issues =>
          \A r \in 1..Len(repositories) :
             \A k \in 1..Len(gh.issues[r]) :
                gh.issues[r][k].origin[3] # "issue"

\* C22: per-entity flags.  While control is in a step whose flag is off,
\* control is only at the step's entry or return, and no step there lists
\* the source, changes the destination or the milestone mapping, or
\* records an item or a failure; the other steps still run in the usual
\* order and list the source when their flag is on; with migrate_issues off
\* no destination issue is made by migrate_issues.
C22_FlagsOff ==
    [][/\ \A step \in FlaggedSteps :
             (pc \in StepPcs[step] /\ ~FlagOf(step)) =>
                /\ pc \in {step, RetPc(step)}
                /\ pc = step => pc' \in {RetPc(step), "killed"}
                /\ gh' = gh
                /\ milestone_mapping' = milestone_mapping
                /\ hist'.reads = hist.reads
                /\ hist'.aborted = hist.aborted
                /\ hist'.failed = hist.failed
                /\ hist'.done = hist.done
                /\ hist'.skipped = hist.skipped
                /\ hist'.faults = hist.faults
       /\ FlagsRespected']_vars

\* C22's case: with migrate_issues and migrate_labels off and the other
\* flags on, the run over a repository with a label, a milestone, an issue
\* and a merge request has ended: the milestone and the request were
\* migrated, and the destination has no label and no issue of the
\* issue migrator.
C22_Witness ==
    /\ pc = "done"
    /\ ~config.migrate_issues /\ ~config.migrate_labels
    /\ config.migrate_milestones /\ config.migrate_merge_requests
    /\ Len(repositories[1].issues) = 1
    /\ Len(repositories[1].labels) = 1
    /\ hist.results = <<[ri |-> 1, ok |-> TRUE]>>
    /\ hist.faults = 0
    /\ Len(gh.milestones[1]) = 1
    /\ Len(gh.pulls[1]) = 1
    /\ gh.labels[1] = {}
    /\ hist.reads = {<<1, 1, "milestones">>, <<1, 1, "mrs">>}

---------------------------------------------------------------------------
(* Skipping a duplicate.                                                   *)

\* The current source issue is one the loop skips: its key is among the
\* keys read before the loop.
WillSkip ==
    /\ pc \in {"issue_labels", "issue_create"}
    /\ <<Issue.title, IssueState(Issue.state)>> \in frame.existing_issue_keys

\* C23: skipping a duplicate has no side effect.  No step of the processing
\* of a source issue whose key matches an existing destination issue
\* changes the destination: its issues, comments and labels stay as they
\* were when the processing of that issue began.
C23_SkipHasNoSideEffect ==
    [][WillSkip => gh' = gh]_vars

---------------------------------------------------------------------------
(* The dedup keys are read once.                                           *)

\* The destination's issues as they were when the current run began: the
\* ones no item of the current run made.
StartIssues ==
    LET Earlier(i) == i.origin[1] # hist.run
    IN  SelectSeq(gh.issues[1], Earlier)

\* The dedup key of source issue i.
SourceKey(i) ==
    <<repositories[1].issues[i].title,
      IssueState(repositories[1].issues[i].state)>>

\* C24: the dedup key set is a snapshot.  Throughout the loop of
\* migrate_issues the key set is the set of keys of the destination's
\* issues at the start of the run; a source issue is skipped only when its
\* key is in that set, and an issue that was processed to the end has a key
\* outside that set and a destination issue of its own, whatever was
\* created earlier in the run: two source issues with the same key, absent
\* at the start, both get a destination issue.
C24_KeySetIsSnapshot ==
    /\ pc \in {"issue_loop", "issue_labels", "issue_create", "issue_notes"} =>
          frame.existing_issue_keys = IssueKeys(StartIssues)
    /\ \A i \in 1..Len(repositories[1].issues) :
          /\ <<hist.run, 1, "issue", i>> \in hist.skipped =>
                SourceKey(i) \in IssueKeys(StartIssues)
          /\ <<hist.run, 1, "issue", i>> \in hist.done =>
                /\ SourceKey(i) \notin IssueKeys(StartIssues)
                /\ Cardinality(MadeBy(1, hist.run, "issue", i)) = 1

\* C24's case: two source issues with the same title and state, whose key
\* the destination lacked, were both processed to the end; the destination
\* holds an issue for each.
C24_Witness ==
    /\ pc = "issues_ret"
    /\ hist.run = 1
    /\ Len(repositories[1].issues) = 2
    /\ SourceKey(1) = SourceKey(2)
    /\ SourceKey(1) \notin IssueKeys(StartIssues)
    /\ hist.done = {<<1, 1, "issue", 1>>, <<1, 1, "issue", 2>>}
    /\ MadeBy(1, 1, "issue", 1) # {} /\ MadeBy(1, 1, "issue", 2) # {}
    /\ KeyCount(gh.issues[1], SourceKey(1)) = 2

====
